---------------------------- MODULE Spec2Model ----------------------------
(***************************************************************************)
(* A model of patchright/fingerprint_utils.py: the fingerprint record, its *)
(* normalisation on load, and its two projections (the context arguments   *)
(* and the property-override script).                                      *)
(*                                                                         *)
(* Python values are tagged records [t |-> type name, v |-> payload]:      *)
(*   NoneType  v = <<>>                                                    *)
(*   bool      v \in BOOLEAN                                               *)
(*   int       v \in Int                                                   *)
(*   float     v = [neg, m, e, inf]: a double, by the shortest decimal     *)
(*             number m * 10^e that reads back as it (m \in Nat, not a     *)
(*             multiple of 10 unless it is 0, and then e = 0), with a      *)
(*             minus sign when neg (m = 0 and neg is -0.0), or an infinity *)
(*             when inf (and then m = e = 0). Float(neg, m, e) is the      *)
(*             double nearest to m * 10^e: an infinity past the largest    *)
(*             double, a zero or a multiple of 2^-1074 below the normal    *)
(*             ones. FloatV(h) is the float of h hundredths. The model     *)
(*             holds the doubles of at most nine significant digits and    *)
(*             what float() makes of a literal of at most nine (an         *)
(*             integer below 2^31 without its final zeros); no nan.        *)
(*             int() is applied to an infinity and to floats of less than  *)
(*             ten digits before the point only                            *)
(*   str       v = a sequence of text pieces; the text is the pieces put   *)
(*             end to end. A piece is one character (a digit, a sign, a    *)
(*             point, an underscore, a blank, a quote, a backslash, one of *)
(*             the characters of Special, or the exponent mark e or E of a *)
(*             number; no other character outside printable ASCII is in    *)
(*             the model) or a word: a run of printable ASCII text kept    *)
(*             whole, which holds a letter, no quote and no backslash,     *)
(*             neither begins nor ends with a blank when it begins or ends *)
(*             the str, and spells no number (inf, nan, infinity)          *)
(*   list      v = a sequence of values                                    *)
(*   tuple     v = a sequence of values                                    *)
(*   dict      v = a function from keys (TLA+ strings, each a word) to     *)
(*             values, k = the keys in the order of their insertion        *)
(* An exception that leaves a call is the value Raise(kind).               *)
(***************************************************************************)
EXTENDS Integers, Sequences, FiniteSets, TLC

None == [t |-> "NoneType", v |-> <<>>]
Bool(b) == [t |-> "bool", v |-> b]
IntV(n) == [t |-> "int", v |-> n]
Str(s) == [t |-> "str", v |-> s]
List(s) == [t |-> "list", v |-> s]
Tuple(s) == [t |-> "tuple", v |-> s]
Raise(kind) == [t |-> "raise", v |-> kind]
IsRaise(x) == x.t = "raise"

\* A dict literal: the keys in the order they are written, and their values.
Dict(keys, f) == [t |-> "dict", v |-> f, k |-> keys]

EmptyDict == Dict(<<>>, [key \in {} |-> None])

\* d.get(key, default)
Get(d, key, default) == IF key \in DOMAIN d.v THEN d.v[key] ELSE default

\* d[key] = value: a new key goes last, a key of d keeps its place
Put(d, key, value) ==
    Dict(IF key \in DOMAIN d.v THEN d.k ELSE Append(d.k, key),
         [x \in (DOMAIN d.v) \cup {key} |-> IF x = key THEN value ELSE d.v[x]])

(***************************************************************************)
(* Python built-ins the module relies on.                                  *)
(***************************************************************************)
Digits == <<"0", "1", "2", "3", "4", "5", "6", "7", "8", "9">>
DigitSet == {Digits[i] : i \in 1..10}
DigitVal(c) == (CHOOSE i \in 1..10 : Digits[i] = c) - 1

\* The delete character, U+007F.
DEL == ""

\* The characters outside printable ASCII that the strs of the model hold:
\* the newline, the tab, the carriage return, the form feed, the delete
\* character, and the letters e-acute and u-umlaut.
Special == {"\n", "\t", "\r", "\f", DEL, "é", "ü"}

\* What int() and float() take for white space around a number.
Whitespace == {" ", "\n", "\t", "\r", "\f"}

IsSequence(x) == x.t \in {"list", "tuple"}

\* bool(x): Python truthiness
bool(x) ==
    CASE x.t = "NoneType" -> FALSE
      [] x.t = "bool" -> x.v
      [] x.t = "int" -> x.v # 0
      [] x.t = "float" -> x.v.m # 0 \/ x.v.inf
      [] x.t = "str" -> Len(x.v) > 0
      [] x.t = "list" -> Len(x.v) > 0
      [] x.t = "tuple" -> Len(x.v) > 0
      [] x.t = "dict" -> DOMAIN x.v # {}

\* a or b
Or(a, b) == IF bool(a) THEN a ELSE b

RECURSIVE LStrip(_)
LStrip(s) == IF Len(s) > 0 /\ s[1] \in Whitespace THEN LStrip(Tail(s)) ELSE s

RECURSIVE RStrip(_)
RStrip(s) ==
    IF Len(s) > 0 /\ s[Len(s)] \in Whitespace
    THEN RStrip(SubSeq(s, 1, Len(s) - 1)) ELSE s

Strip(s) == RStrip(LStrip(s))

\* A run of decimal digits in which single underscores may group digits.
IsDigitRun(s) ==
    /\ Len(s) > 0
    /\ \A i \in 1..Len(s) : s[i] \in DigitSet \cup {"_"}
    /\ s[1] \in DigitSet
    /\ s[Len(s)] \in DigitSet
    /\ \A i \in 1..(Len(s) - 1) : ~(s[i] = "_" /\ s[i + 1] = "_")

RECURSIVE DigitsValue(_)
DigitsValue(s) ==
    IF Len(s) = 0 THEN 0
    ELSE LET init == SubSeq(s, 1, Len(s) - 1)
             last == s[Len(s)]
         IN  IF last = "_" THEN DigitsValue(init)
             ELSE 10 * DigitsValue(init) + DigitVal(last)

IsSign(c) == c \in {"+", "-"}
Unsigned(s) == IF Len(s) > 0 /\ IsSign(s[1]) THEN Tail(s) ELSE s
Signum(s) == IF Len(s) > 0 /\ s[1] = "-" THEN -1 ELSE 1

\* int(s) for a str s
IntOfStr(s) ==
    LET u == Strip(s)
        body == Unsigned(u)
    IN  IF IsDigitRun(body) THEN IntV(Signum(u) * DigitsValue(body))
        ELSE Raise("ValueError")

RECURSIVE Pow10(_)
Pow10(n) == IF n = 0 THEN 1 ELSE 10 * Pow10(n - 1)

(***************************************************************************)
(* The floats: IEEE 754 doubles, written as the shortest decimal that      *)
(* reads back as the same double (what repr prints).                       *)
(***************************************************************************)
Finite(neg, m, e) ==
    [t |-> "float", v |-> [neg |-> neg, m |-> m, e |-> e, inf |-> FALSE]]

\* float('inf') and float('-inf')
Infinite(neg) ==
    [t |-> "float", v |-> [neg |-> neg, m |-> 0, e |-> 0, inf |-> TRUE]]

\* The decimal number m * 10^e in its one written form: m is no multiple of
\* 10, and 0 is 0 * 10^0.
RECURSIVE Written(_, _, _)
Written(neg, m, e) ==
    IF m = 0 THEN Finite(neg, 0, 0)
    ELSE IF m % 10 = 0 THEN Written(neg, m \div 10, e + 1)
    ELSE Finite(neg, m, e)

\* 2^1074 and 5^1074 in limbs of four decimal digits, the most significant
\* limb first. The doubles below 2^-1022 are the multiples of the step
\* 2^-1074 = 5^1074 / 10^1074.
TwoTo1074 ==
    <<2024, 225, 3307, 3106, 1835, 2495, 3467, 1891, 7307, 495, 5664, 9764,
      1421, 1835, 6901, 3580, 2743, 339, 5679, 9534, 6891, 9603, 8370, 1437,
      1244, 9518, 7077, 8643, 1681, 1911, 3898, 873, 7385, 7934, 7686, 7013,
      3999, 4073, 8509, 9215, 1742, 4276, 5663, 6136, 4466, 9077, 4209, 3216,
      3412, 3976, 7678, 4727, 4506, 8562, 74, 8342, 4692, 6986, 1810, 3355,
      6491, 5955, 6340, 8100, 5651, 2358, 7695, 5233, 3414, 6152, 3050, 2532,
      1863, 2750, 8646, 62, 6330, 7707, 7410, 9349, 4784>>

FiveTo1074 ==
    <<494, 656, 4584, 1246, 5441, 7656, 8792, 8682, 2137, 2365, 598, 261,
      4324, 7644, 2558, 5682, 5006, 7550, 7270, 2087, 5186, 5299, 8363, 6163,
      5992, 3797, 9656, 4695, 4457, 1773, 926, 6567, 1035, 5939, 7963, 9877,
      4796, 107, 8187, 8126, 3007, 1319, 311, 4045, 2784, 5817, 1678, 4898,
      2103, 6887, 1863, 6056, 9987, 3072, 3050, 63, 8740, 9153, 5649, 8438,
      7312, 4733, 9727, 3169, 6151, 4003, 1715, 3853, 9807, 4126, 2385, 6559,
      1171, 266, 5855, 6686, 7681, 8703, 9560, 3106, 2493, 1945, 2715, 9149,
      2455, 3293, 545, 6544, 4011, 2748, 129, 7099, 9954, 1931, 9894, 908,
      416, 5633, 2452, 4757, 1478, 6901, 4726, 7801, 5935, 5238, 6115, 5013,
      4803, 5264, 9347, 2019, 3790, 2681, 710, 7491, 7033, 3222, 6844, 7533,
      3572, 832, 4319, 3609, 2382, 8934, 5836, 8060, 1060, 1150, 6169, 8097,
      5307, 8342, 2773, 1832, 9247, 9049, 8252, 4730, 7763, 7592, 7247, 8746,
      5608, 4778, 2037, 3446, 9699, 5336, 4701, 7972, 6777, 1758, 5125, 6605,
      5119, 9131, 5048, 9110, 1451, 378, 6273, 8167, 2509, 5583, 7389, 7335,
      9899, 3664, 8099, 4116, 4205, 7026, 3709, 279, 2427, 6754, 4565, 2290,
      8753, 8682, 5064, 1971, 8265, 5334, 4726, 5625>>

Base == 10000

\* The limbs of a * s, for a number a in limbs and a natural number s below
\* 2^31. Place 1 is the last limb of a. The products are added up place by
\* place; three times over, each place keeps what is below Base and hands
\* the rest to the next place, which leaves at most Base in a place; and a
\* last 1 is carried into a place from the nearest place below that holds
\* Base, when every place between the two holds Base - 1.
Sums(a, s) ==
    LET limb(i) == IF i >= 0 /\ i < Len(a) THEN a[Len(a) - i] ELSE 0
    IN  SubSeq([i \in 1..(Len(a) + 3) |->
                   limb(i - 1) * (s % Base)
                       + limb(i - 2) * ((s \div Base) % Base)
                       + limb(i - 3) * (s \div (Base * Base))],
               1, Len(a) + 3)

Handed(c) ==
    SubSeq([i \in 1..Len(c) |->
               (c[i] % Base) + (IF i = 1 THEN 0 ELSE c[i - 1] \div Base)],
           1, Len(c))

Carried(x) ==
    LET carried(i) ==
            \E g \in 1..(i - 1) :
                x[g] = Base /\ \A l \in (g + 1)..(i - 1) : x[l] = Base - 1
    IN  [i \in 1..Len(x) |->
            (x[Len(x) + 1 - i] + (IF carried(Len(x) + 1 - i) THEN 1 ELSE 0)) % Base]

Times(a, s) == Carried(Handed(Handed(Handed(Sums(a, s)))))

RECURSIVE WithoutLeadingZeros(_)
WithoutLeadingZeros(d) ==
    IF Len(d) > 0 /\ d[1] = 0 THEN WithoutLeadingZeros(Tail(d)) ELSE d

\* The decimal digits of a number in limbs.
DecimalDigits(a) ==
    WithoutLeadingZeros(
        [i \in 1..(4 * Len(a)) |->
            (a[((i - 1) \div 4) + 1] \div Pow10(3 - ((i - 1) % 4))) % 10])

\* The decimal digits of a natural number, and the number of a run of them.
RECURSIVE DigitsOfNat(_)
DigitsOfNat(n) ==
    IF n < 10 THEN <<n>> ELSE Append(DigitsOfNat(n \div 10), n % 10)

RECURSIVE NatOfDigits(_)
NatOfDigits(d) ==
    IF Len(d) = 0 THEN 0
    ELSE 10 * NatOfDigits(SubSeq(d, 1, Len(d) - 1)) + d[Len(d)]

\* The number made of the first n digits of d, and one more when the digit
\* after them is 5 or more; 0 when n < 0.
Rounded(d, n) ==
    IF n < 0 THEN 0
    ELSE NatOfDigits(SubSeq(d, 1, n)) + (IF d[n + 1] >= 5 THEN 1 ELSE 0)

\* The number of steps of 2^-1074 nearest to m * 10^e, for e < 0: the digits
\* of m * 2^1074 without the last -e of them, rounded. (No m * 10^e this
\* short lies halfway between two doubles.)
StepsOf(d, e) == Rounded(d, Len(d) + e)

Steps(m, e) == StepsOf(DecimalDigits(Times(TwoTo1074, m)), e)

\* The decimals that may be the shortest one of the double of digits d, in
\* the order they are tried: of the two n-digit decimals around the double
\* the nearer one, then the other one, for n = 1, 2, ...
Candidate(d, i) ==
    LET n == (i + 1) \div 2
        nearer == i % 2 = 1
        up == d[n + 1] >= 5
    IN  <<NatOfDigits(SubSeq(d, 1, n)) + (IF up = nearer THEN 1 ELSE 0),
          Len(d) - n - 1074>>

\* The shortest decimal that reads back as k steps of 2^-1074, d being the
\* digits of k * 5^1074: the first candidate, from the i-th on, that does.
RECURSIVE Shortest(_, _, _)
Tried(c, d, k, i) ==
    IF Steps(c[1], c[2]) = k THEN c ELSE Shortest(d, k, i + 1)

Shortest(d, k, i) == Tried(Candidate(d, i), d, k, i)

\* 0.a < 0.b for two runs of digits, b being the first digits of a number
\* with more digits than a.
Under(a, b) ==
    LET differ == {i \in 1..Len(a) : a[i] # b[i]}
        first == CHOOSE i \in differ : \A j \in differ : i <= j
    IN  differ = {} \/ a[first] < b[first]

\* The first digits of 2^1024 - 2^970 = 1.7976931348623158e+308, halfway
\* between the largest double and 2^1024, and of 2^-1075 =
\* 2.4703282292062327e-324, half a step.
HalfwayToInfinity == <<1, 7, 9, 7, 6, 9, 3, 1, 3, 4, 8, 6, 2, 3, 1, 5, 8>>
HalfStep == <<2, 4, 7, 0, 3, 2, 8, 2, 2, 9, 2, 0, 6, 2, 3, 2, 7>>

\* The double k * 2^-1074, for k of 1 or more.
WrittenPair(neg, s) == Written(neg, s[1], s[2])

MultipleOfStep(neg, k) ==
    WrittenPair(neg, Shortest(DecimalDigits(Times(FiveTo1074, k)), k, 1))

\* The double nearest to m * 10^e (m not 0 and no multiple of 10): infinity
\* from halfway to 2^1024 on, 0.0 up to half a step, a multiple of the step
\* below 1e-314, and m * 10^e itself in between, where the doubles lie so
\* close that m * 10^e is the shortest decimal of its double.
Nearest(neg, m, e) ==
    LET digits == DigitsOfNat(m)
        point == Len(digits) + e
    IN  IF point > 309 \/ (point = 309 /\ ~Under(digits, HalfwayToInfinity))
        THEN Infinite(neg)
        ELSE IF point < -323 \/ (point = -323 /\ Under(digits, HalfStep))
        THEN Finite(neg, 0, 0)
        ELSE IF point <= -314 THEN MultipleOfStep(neg, Steps(m, e))
        ELSE Finite(neg, m, e)

\* The float nearest to m * 10^e, negative when neg.
Float(neg, m, e) ==
    LET w == Written(neg, m, e).v
    IN  IF w.m = 0 \/ (w.e > -300 /\ w.e < 290) THEN Finite(neg, w.m, w.e)
        ELSE Nearest(neg, w.m, w.e)

\* The float of h hundredths: FloatV(125) is 1.25
FloatV(h) == IF h < 0 THEN Float(TRUE, -h, -2) ELSE Float(FALSE, h, -2)

\* The integer part of the finite float v, toward zero.
Trunc(v) ==
    LET a == IF v.e >= 0 THEN v.m * Pow10(v.e)
             ELSE IF -v.e > 9 THEN 0
             ELSE v.m \div Pow10(-v.e)
    IN  IF v.neg THEN -a ELSE a

\* int(x)
int(x) ==
    CASE x.t = "int" -> x
      [] x.t = "bool" -> IntV(IF x.v THEN 1 ELSE 0)
      [] x.t = "float" ->
           IF x.v.inf THEN Raise("OverflowError") ELSE IntV(Trunc(x.v))
      [] x.t = "str" -> IntOfStr(x.v)
      [] OTHER -> Raise("TypeError")

Dots(s) == {i \in 1..Len(s) : s[i] = "."}
ExponentMarks(s) == {i \in 1..Len(s) : s[i] \in {"e", "E"}}

\* The digits of a digit run, its underscores left out.
DigitsOf(s) == SelectSeq(s, LAMBDA c : c # "_")

\* The mantissa of a float literal: digits, and at most one point with digits
\* on at least one side of it.
IsMantissa(s) ==
    LET dots == Dots(s)
        p == CHOOSE i \in dots : TRUE
        ip == SubSeq(s, 1, p - 1)
        fp == SubSeq(s, p + 1, Len(s))
    IN  IF dots = {} THEN IsDigitRun(s)
        ELSE /\ Cardinality(dots) = 1
             /\ Len(ip) + Len(fp) > 0
             /\ (Len(ip) = 0 \/ IsDigitRun(ip))
             /\ (Len(fp) = 0 \/ IsDigitRun(fp))

\* The digits after the point of a mantissa.
FractionOf(s) ==
    LET dots == Dots(s)
        p == CHOOSE i \in dots : TRUE
    IN  IF dots = {} THEN <<>> ELSE DigitsOf(SubSeq(s, p + 1, Len(s)))

\* A run of digits without the zeros that end it, and without those that
\* begin it.
RECURSIVE WithoutZerosAfter(_)
WithoutZerosAfter(s) ==
    IF Len(s) > 0 /\ s[Len(s)] = "0"
    THEN WithoutZerosAfter(SubSeq(s, 1, Len(s) - 1)) ELSE s

RECURSIVE WithoutZerosBefore(_)
WithoutZerosBefore(s) ==
    IF Len(s) > 0 /\ s[1] = "0" THEN WithoutZerosBefore(Tail(s)) ELSE s

\* The largest exponent the model reads digit by digit; the float of a
\* literal with a larger one is an infinity or a zero whatever it is.
LargeExponent == 1000000

\* float(s) for a str s: white space around, a sign, a mantissa, and an
\* exponent (e or E, a sign, digits) or none.
FloatOfStr(s) ==
    LET u == Strip(s)
        body == Unsigned(u)
        marks == ExponentMarks(body)
        q == CHOOSE i \in marks : TRUE
        mantissa == IF marks = {} THEN body ELSE SubSeq(body, 1, q - 1)
        exponent == IF marks = {} THEN <<"0">> ELSE SubSeq(body, q + 1, Len(body))
        digits == SelectSeq(mantissa, LAMBDA c : c \notin {"_", "."})
        significant == WithoutZerosAfter(digits)
        power == WithoutZerosBefore(DigitsOf(Unsigned(exponent)))
        e == Signum(exponent)
                 * (IF Len(power) > 6 THEN LargeExponent ELSE DigitsValue(power))
    IN  IF /\ Cardinality(marks) <= 1
           /\ IsMantissa(mantissa)
           /\ IsDigitRun(Unsigned(exponent))
        THEN Float(Signum(u) = -1, DigitsValue(significant),
                   e + Len(digits) - Len(significant) - Len(FractionOf(mantissa)))
        ELSE Raise("ValueError")

\* float(x)
float(x) ==
    CASE x.t = "float" -> x
      [] x.t = "int" -> Float(x.v < 0, IF x.v < 0 THEN -x.v ELSE x.v, 0)
      [] x.t = "bool" -> Float(FALSE, IF x.v THEN 1 ELSE 0, 0)
      [] x.t = "str" -> FloatOfStr(x.v)
      [] OTHER -> Raise("TypeError")

\* True when the piece word occurs in the text s.
HasWord(s, word) == \E i \in 1..Len(s) : s[i] = word

(***************************************************************************)
(* Module-level constants of fingerprint_utils.py.                         *)
(***************************************************************************)
VIEWPORTS ==
    << <<1920, 1080>>, <<1366, 768>>, <<1280, 800>>, <<1536, 864>>,
       <<375, 812>>, <<414, 896>>, <<390, 844>>, <<360, 800>> >>

\* The outcomes of random.choice(VIEWPORTS).
ViewportChoices == {VIEWPORTS[i] : i \in 1..Len(VIEWPORTS)}

\* {"width": w, "height": h}
Viewport(w, h) ==
    Dict(<<"width", "height">>,
         [key \in {"width", "height"} |-> IF key = "width" THEN w ELSE h])

UA_WINDOWS ==
    Str(<<"Mozilla/5.0 (", "Windows",
          " NT 10.0; Win64; x64) AppleWebKit/537.36 (KHTML, like Gecko) Chrome/120.0.0.0 Safari/537.36">>)

EN_US == Str(<<"en-US">>)
EN == Str(<<"en">>)

\* The content of the list object DEFAULT_FP["languages"]: the one value of
\* DEFAULT_FP that code outside the module can change in place.
VARIABLE DEFAULT_FP_languages

DEFAULT_FP ==
    [user_agent |-> UA_WINDOWS,
     viewport |-> Viewport(IntV(1280), IntV(800)),
     timezone |-> Str(<<"Europe/Berlin">>),
     locale |-> EN_US,
     platform |-> Str(<<"Win32">>),
     languages |-> DEFAULT_FP_languages,
     device_memory |-> IntV(8),
     hardware_concurrency |-> IntV(8),
     max_touch_points |-> IntV(0),
     color_depth |-> IntV(24),
     webdriver |-> Bool(FALSE)]

\* _normalize_viewport that takes a list of exactly two elements only.
_normalize_viewport_pair_only(viewport, vw) ==
    LET fallback == Viewport(IntV(vw[1]), IntV(vw[2]))
    IN  IF /\ IsSequence(viewport)
           /\ Len(viewport.v) = 2
           /\ ~IsRaise(int(viewport.v[1]))
           /\ ~IsRaise(int(viewport.v[2]))
        THEN Viewport(int(viewport.v[1]), int(viewport.v[2]))
        ELSE IF viewport.t = "dict"
        THEN LET w == Get(viewport, "width", None)
                 h == Get(viewport, "height", None)
             IN  IF ~IsRaise(int(w)) /\ ~IsRaise(int(h))
                 THEN Viewport(int(w), int(h))
                 ELSE Viewport(IntV(1280), IntV(800))
        ELSE fallback

\* _normalize_viewport whose mapping branch passes on a failure, as its list
\* branch does, and so reaches the random fallback.
_normalize_viewport_mapping_falls_through(viewport, vw) ==
    LET fallback == Viewport(IntV(vw[1]), IntV(vw[2]))
    IN  IF /\ IsSequence(viewport)
           /\ Len(viewport.v) >= 2
           /\ ~IsRaise(int(viewport.v[1]))
           /\ ~IsRaise(int(viewport.v[2]))
        THEN Viewport(int(viewport.v[1]), int(viewport.v[2]))
        ELSE IF /\ viewport.t = "dict"
                /\ ~IsRaise(int(Get(viewport, "width", None)))
                /\ ~IsRaise(int(Get(viewport, "height", None)))
        THEN Viewport(int(Get(viewport, "width", None)),
                      int(Get(viewport, "height", None)))
        ELSE fallback

(***************************************************************************)
(* _normalize_viewport(viewport); vw is the outcome of                     *)
(* random.choice(VIEWPORTS), drawn by the caller of this operator and read *)
(* only on the fallback path.                                              *)
(***************************************************************************)
_normalize_viewport(viewport, vw) ==
    LET fallback == Viewport(int(IntV(vw[1])), int(IntV(vw[2])))
    IN  IF /\ IsSequence(viewport)
           /\ Len(viewport.v) >= 2
           /\ ~IsRaise(int(viewport.v[1]))
           /\ ~IsRaise(int(viewport.v[2]))
        THEN Viewport(int(viewport.v[1]), int(viewport.v[2]))
        ELSE IF viewport.t = "dict"
        THEN LET w == Get(viewport, "width", None)
                 h == Get(viewport, "height", None)
             IN  IF ~IsRaise(int(w)) /\ ~IsRaise(int(h))
                 THEN Viewport(int(w), int(h))
                 ELSE Viewport(int(DEFAULT_FP["viewport"].v["width"]),
                               int(DEFAULT_FP["viewport"].v["height"]))
        ELSE fallback

(***************************************************************************)
(* random_fp(): c holds the outcome of each random.choice of the call      *)
(* (c.platform and c.max_touch_points are read only on the paths that      *)
(* draw them). A user agent is split into pieces so that each of the words *)
(* the code looks for ("Windows", "Macintosh", "iPhone") is a piece.       *)
(***************************************************************************)
UA_MACINTOSH ==
    Str(<<"Mozilla/5.0 (", "Macintosh",
          "; Intel Mac OS X 14_0_0) AppleWebKit/605.1.15 (KHTML, like Gecko) Version/17.0 Safari/605.1.15">>)

UA_IPHONE ==
    Str(<<"Mozilla/5.0 (", "iPhone", "; CPU ", "iPhone",
          " OS 17_0 like Mac OS X) AppleWebKit/605.1.15 (KHTML, like Gecko) Version/17.0 Mobile/15E148 Safari/604.1">>)

user_agents == {UA_WINDOWS, UA_MACINTOSH, UA_IPHONE}
platforms == {Str(<<"Win32">>), Str(<<"MacIntel">>), Str(<<"iPhone">>)}

\* word in ua
In(word, ua) == HasWord(ua.v, word)

\* The outcomes of the random choices of one call of random_fp.
RandomChoices ==
    [vw : ViewportChoices,
     ua : user_agents,
     platform : platforms,
     timezone : {Str(<<"Europe/Berlin">>), Str(<<"America/New_York">>),
                 Str(<<"Asia/Tokyo">>)},
     locale : {Str(<<"en-US">>), Str(<<"de-DE">>), Str(<<"fr-FR">>)},
     languages : {List(<<Str(<<"en-US">>), Str(<<"en">>)>>),
                  List(<<Str(<<"de-DE">>), Str(<<"de">>)>>),
                  List(<<Str(<<"fr-FR">>), Str(<<"fr">>)>>)},
     device_memory : {IntV(4), IntV(8), IntV(16)},
     hardware_concurrency : {IntV(4), IntV(8), IntV(12), IntV(16)},
     max_touch_points : {IntV(5), IntV(10)},
     device_scale_factor : {IntV(1), FloatV(125), FloatV(150), IntV(2)},
     color_scheme : {Str(<<"light">>), Str(<<"dark">>)}]

\* The keys of the record random_fp returns, in the order it writes them.
FieldOrder ==
    <<"user_agent", "viewport", "timezone", "locale", "platform", "languages",
      "device_memory", "hardware_concurrency", "max_touch_points", "color_depth",
      "webdriver", "device_scale_factor", "color_scheme">>

RandomRecord(c, platform) ==
    Dict(FieldOrder,
         [user_agent |-> c.ua,
          viewport |-> Viewport(int(IntV(c.vw[1])), int(IntV(c.vw[2]))),
          timezone |-> c.timezone,
          locale |-> c.locale,
          platform |-> platform,
          languages |-> c.languages,
          device_memory |-> c.device_memory,
          hardware_concurrency |-> c.hardware_concurrency,
          max_touch_points |->
              IF platform \in {Str(<<"Win32">>), Str(<<"MacIntel">>)}
              THEN IntV(0) ELSE c.max_touch_points,
          color_depth |-> IntV(24),
          webdriver |-> Bool(FALSE),
          device_scale_factor |-> c.device_scale_factor,
          color_scheme |-> c.color_scheme])

\* random_fp that draws the platform whatever the user agent is.
random_fp_platform_drawn(c) == RandomRecord(c, c.platform)

random_fp(c) ==
    LET platform ==
            IF In("Windows", c.ua) THEN Str(<<"Win32">>)
            ELSE IF In("Macintosh", c.ua) THEN Str(<<"MacIntel">>)
            ELSE IF In("iPhone", c.ua) THEN Str(<<"iPhone">>)
            ELSE c.platform
    IN  RandomRecord(c, platform)

\* The outcomes of random.choice(VIEWPORTS) a call _normalize_viewport(viewport)
\* can meet: each of them when the call reaches the draw; when it returns
\* before, no draw is made, and one outcome stands for that.
Draws(viewport) ==
    IF _normalize_viewport(viewport, VIEWPORTS[1])
           = _normalize_viewport(viewport, VIEWPORTS[2])
    THEN {VIEWPORTS[1]}
    ELSE ViewportChoices

\* The same for a call that normalises fp.get("viewport").
DrawsOfRecord(fp) ==
    IF fp.t = "dict" THEN Draws(Get(fp, "viewport", None)) ELSE {VIEWPORTS[1]}

\* json.load on the file at path: the file is absent (NoFile), holds text
\* that is not JSON (BadJson), or holds the JSON text of a value, modelled by
\* that value.
NoFile == [t |-> "nofile", v |-> <<>>]
BadJson == [t |-> "badjson", v |-> <<>>]

json_load(file) ==
    CASE file.t = "nofile" -> Raise("FileNotFoundError")
      [] file.t = "badjson" -> Raise("JSONDecodeError")
      [] OTHER -> file

\* IntField with the default of device_memory pasted for every key.
IntFieldPastedDefault(fp, key) ==
    LET x == int(Get(fp, key, DEFAULT_FP["device_memory"]))
    IN  Put(fp, key, IF IsRaise(x) THEN DEFAULT_FP["device_memory"] ELSE x)

\* try: fp[key] = int(fp.get(key, DEFAULT_FP[key]))
\* except Exception: fp[key] = DEFAULT_FP[key]
IntField(fp, key) ==
    LET x == int(Get(fp, key, DEFAULT_FP[key]))
    IN  Put(fp, key, IF IsRaise(x) THEN DEFAULT_FP[key] ELSE x)

\* fp[key] = fp.get(key) or DEFAULT_FP[key]
OrField(fp, key) == Put(fp, key, Or(Get(fp, key, None), DEFAULT_FP[key]))

ScaleField(fp) ==
    LET x == float(Get(fp, "device_scale_factor", IntV(1)))
    IN  Put(fp, "device_scale_factor", IF IsRaise(x) THEN IntV(1) ELSE x)

LanguagesField(fp) ==
    LET l == fp.v["languages"]
    IN  IF l.t # "list"
        THEN Put(fp, "languages",
                 IF bool(l) THEN List(<<l>>) ELSE DEFAULT_FP["languages"])
        ELSE fp

(***************************************************************************)
(* load_fp_json(path): file is what path names, vw the outcome of the      *)
(* random.choice inside _normalize_viewport.                               *)
(***************************************************************************)
load_fp_json(file, vw) ==
    LET fp0 == json_load(file)
        fp1 == Put(fp0, "viewport",
                   _normalize_viewport(Get(fp0, "viewport", None), vw))
        fp2 == OrField(fp1, "user_agent")
        fp3 == OrField(OrField(fp2, "timezone"), "locale")
        fp4 == ScaleField(fp3)
        fp5 == OrField(fp4, "platform")
        fp6 == LanguagesField(OrField(fp5, "languages"))
        fp7 == IntField(fp6, "device_memory")
        fp8 == IntField(fp7, "hardware_concurrency")
        fp9 == IntField(fp8, "max_touch_points")
        fp10 == IntField(fp9, "color_depth")
    IN  IF IsRaise(fp0) THEN fp0
        ELSE IF fp0.t # "dict" THEN Raise("AttributeError")
        ELSE Put(fp10, "webdriver",
                 Bool(bool(Get(fp10, "webdriver", DEFAULT_FP["webdriver"]))))

\* True when the record load_fp_json returns for file holds, as its languages,
\* the list object DEFAULT_FP["languages"] itself: `a or b` is b, not a copy
\* of it, and the lists json.load builds are new objects.
SharesDefaultLanguages(file) ==
    /\ json_load(file).t = "dict"
    /\ ~bool(Get(file, "languages", None))

(***************************************************************************)
(* get_context_args(fp, proxy)                                             *)
(***************************************************************************)
\* The keys of the mapping get_context_args builds, in the order it writes
\* them.
ContextArgsOrder ==
    <<"user_agent", "viewport", "locale", "timezone_id", "device_scale_factor",
      "color_scheme">>

\* ContextArgs that defaults with `or`, as load_fp_json does, instead of with
\* the default of get.
ContextArgsOr(fp, vp_, scale) ==
    [k \in {"user_agent", "viewport", "locale", "timezone_id",
            "device_scale_factor", "color_scheme"} |->
        CASE k = "user_agent" -> Or(Get(fp, "user_agent", None), DEFAULT_FP["user_agent"])
          [] k = "viewport" -> vp_
          [] k = "locale" -> Or(Get(fp, "locale", None), DEFAULT_FP["locale"])
          [] k = "timezone_id" -> Or(Get(fp, "timezone", None), DEFAULT_FP["timezone"])
          [] k = "device_scale_factor" -> scale
          [] k = "color_scheme" -> Or(Get(fp, "color_scheme", None), Str(<<"light">>))]

ContextArgs(fp, vp_, scale) ==
    [k \in {"user_agent", "viewport", "locale", "timezone_id",
            "device_scale_factor", "color_scheme"} |->
        CASE k = "user_agent" -> Get(fp, "user_agent", DEFAULT_FP["user_agent"])
          [] k = "viewport" -> vp_
          [] k = "locale" -> Get(fp, "locale", DEFAULT_FP["locale"])
          [] k = "timezone_id" -> Get(fp, "timezone", DEFAULT_FP["timezone"])
          [] k = "device_scale_factor" -> scale
          [] k = "color_scheme" -> Get(fp, "color_scheme", Str(<<"light">>))]

WithProxy(args, proxy) ==
    IF bool(proxy)
    THEN Put(args, "proxy", Dict(<<"server">>, [key \in {"server"} |-> proxy]))
    ELSE args

\* get_context_args that passes device_scale_factor on as the record has it.
get_context_args_scale_as_given(fp, proxy, vw) ==
    LET vp_ == _normalize_viewport(Get(fp, "viewport", None), vw)
        scale == Get(fp, "device_scale_factor", IntV(1))
    IN  WithProxy(Dict(ContextArgsOrder, ContextArgs(fp, vp_, scale)), proxy)

get_context_args(fp, proxy, vw) ==
    LET vp_ == _normalize_viewport(Get(fp, "viewport", None), vw)
        scale == float(Get(fp, "device_scale_factor", IntV(1)))
    IN  IF IsRaise(scale) THEN scale
        ELSE WithProxy(Dict(ContextArgsOrder, ContextArgs(fp, vp_, scale)), proxy)

(***************************************************************************)
(* Text rendering: str() as an f-string field applies it, and json.dumps.  *)
(***************************************************************************)
RECURSIVE NatToStr(_)
NatToStr(n) ==
    IF n < 10 THEN <<Digits[n + 1]>>
    ELSE Append(NatToStr(n \div 10), Digits[(n % 10) + 1])

IntToStr(n) == IF n < 0 THEN <<"-">> \o NatToStr(-n) ELSE NatToStr(n)

Zeros(n) == [i \in 1..n |-> "0"]

\* repr of the float v: 1.0, 1.25, -0.5, 1e+16, 1.5e-07. The digits of v are
\* written out when its point falls at most three places before them and at
\* most sixteen places after the first of them, and with an exponent of at
\* least two digits otherwise.
FloatRepr(v) ==
    LET digits == NatToStr(v.m)
        n == Len(digits)
        point == n + v.e
        x == point - 1
        plain ==
            IF point <= 0 THEN <<"0", ".">> \o Zeros(-point) \o digits
            ELSE IF point >= n THEN digits \o Zeros(point - n) \o <<".", "0">>
            ELSE SubSeq(digits, 1, point) \o <<".">> \o SubSeq(digits, point + 1, n)
        scientific ==
            <<digits[1]>>
                \o (IF n > 1 THEN <<".">> \o SubSeq(digits, 2, n) ELSE <<>>)
                \o <<"e", IF x < 0 THEN "-" ELSE "+">>
                \o (IF x > -10 /\ x < 10 THEN <<"0">> ELSE <<>>)
                \o NatToStr(IF x < 0 THEN -x ELSE x)
    IN  (IF v.neg THEN <<"-">> ELSE <<>>)
            \o (IF v.inf THEN <<"inf">>
                ELSE IF v.m = 0 THEN <<"0", ".", "0">>
                ELSE IF point > 16 \/ point < -3 THEN scientific
                ELSE plain)

RECURSIVE Join(_, _)
Join(parts, sep) ==
    IF Len(parts) = 0 THEN <<>>
    ELSE IF Len(parts) = 1 THEN parts[1]
    ELSE parts[1] \o sep \o Join(Tail(parts), sep)

HasPiece(s, c) == \E i \in 1..Len(s) : s[i] = c

\* What repr writes for the character c in a str it puts between the quotes
\* quote: a backslash before a backslash and before the quote, \n, \t and \r
\* for the newline, the tab and the carriage return, \xNN for another
\* character that is not printable, and c for a printable one, ASCII or not.
ReprEscape(c, quote) ==
    CASE c = "\\" \/ c = quote -> <<"\\", c>>
      [] c = "\n" -> <<"\\", "n">>
      [] c = "\t" -> <<"\\", "t">>
      [] c = "\r" -> <<"\\", "r">>
      [] c = "\f" -> <<"\\", "x0c">>
      [] c = DEL -> <<"\\", "x7f">>
      [] OTHER -> <<c>>

RECURSIVE ReprEscaped(_, _)
ReprEscaped(s, quote) ==
    IF Len(s) = 0 THEN <<>>
    ELSE ReprEscape(s[1], quote) \o ReprEscaped(Tail(s), quote)

\* repr(s) of a str: single quotes, unless s holds one and no double quote
StrRepr(s) ==
    LET quote == IF HasPiece(s, "'") /\ ~HasPiece(s, "\"") THEN "\"" ELSE "'"
    IN  <<quote>> \o ReprEscaped(s, quote) \o <<quote>>

RECURSIVE repr(_)
repr(x) ==
    CASE x.t = "NoneType" -> <<"None">>
      [] x.t = "bool" -> IF x.v THEN <<"True">> ELSE <<"False">>
      [] x.t = "int" -> IntToStr(x.v)
      [] x.t = "float" -> FloatRepr(x.v)
      [] x.t = "str" -> StrRepr(x.v)
      [] x.t = "list" ->
           <<"[">> \o Join([i \in 1..Len(x.v) |-> repr(x.v[i])], <<", ">>) \o <<"]">>
      [] x.t = "tuple" ->
           <<"(">> \o Join([i \in 1..Len(x.v) |-> repr(x.v[i])], <<", ">>)
               \o (IF Len(x.v) = 1 THEN <<",">> ELSE <<>>) \o <<")">>
      [] x.t = "dict" ->
           <<"{">> \o Join([i \in 1..Len(x.k) |->
                               StrRepr(<<x.k[i]>>) \o <<": ">> \o repr(x.v[x.k[i]])],
                           <<", ">>)
               \o <<"}">>

\* The text an f-string field {x} renders: str(x)
str(x) == IF x.t = "str" THEN x.v ELSE repr(x)

\* What json.dumps (ensure_ascii, its default) writes for the character c of
\* a str: a backslash before a backslash and before a double quote, \n, \t,
\* \r and \f, \uXXXX for another character that is not printable ASCII, and
\* c otherwise.
JsonEscape(c) ==
    CASE c = "\\" \/ c = "\"" -> <<"\\", c>>
      [] c = "\n" -> <<"\\", "n">>
      [] c = "\t" -> <<"\\", "t">>
      [] c = "\r" -> <<"\\", "r">>
      [] c = "\f" -> <<"\\", "f">>
      [] c = DEL -> <<"\\", "u007f">>
      [] c = "é" -> <<"\\", "u00e9">>
      [] c = "ü" -> <<"\\", "u00fc">>
      [] OTHER -> <<c>>

RECURSIVE JsonEscaped(_)
JsonEscaped(s) ==
    IF Len(s) = 0 THEN <<>> ELSE JsonEscape(s[1]) \o JsonEscaped(Tail(s))

\* json.dumps of a str
JsonStr(s) == <<"\"">> \o JsonEscaped(s) \o <<"\"">>

RECURSIVE json_dumps(_)
json_dumps(x) ==
    CASE x.t = "NoneType" -> <<"null">>
      [] x.t = "bool" -> IF x.v THEN <<"true">> ELSE <<"false">>
      [] x.t = "int" -> IntToStr(x.v)
      [] x.t = "float" ->
           IF x.v.inf THEN <<IF x.v.neg THEN "-Infinity" ELSE "Infinity">>
           ELSE FloatRepr(x.v)
      [] IsSequence(x) ->
           <<"[">> \o Join([i \in 1..Len(x.v) |-> json_dumps(x.v[i])], <<", ">>)
               \o <<"]">>
      [] x.t = "str" -> JsonStr(x.v)
      [] x.t = "dict" ->
           <<"{">> \o Join([i \in 1..Len(x.k) |->
                               JsonStr(<<x.k[i]>>) \o <<": ">>
                                   \o json_dumps(x.v[x.k[i]])],
                           <<", ">>)
               \o <<"}">>

(***************************************************************************)
(* generate_js_overrides(fp): the script as the sequence of its text       *)
(* pieces. A piece of the template is one TLA+ string, with the blanks and *)
(* line breaks the template has there.                                     *)
(***************************************************************************)
TryOpen == "    try {\n        Object.defineProperty("
GetterOpen == "            get: () => "
BlockClose == "\n        });\n    } catch (e) {}\n    \n"

\*     try {
\*         Object.defineProperty(<target>, {
\*             get: () => <value>
\*         });
\*     } catch (e) {}
Override(target, value) ==
    <<TryOpen, target, ", {\n", GetterOpen>> \o value \o <<BlockClose>>

Quoted(text) == <<"'">> \o text \o <<"'">>

\* webdriver_js left to the f-string, which renders str(webdriver).
webdriver_js_interpolated(webdriver) == str(webdriver)

\* webdriver_js = "true" if webdriver else "false"
webdriver_js(webdriver) == IF bool(webdriver) THEN <<"true">> ELSE <<"false">>

\* languages_js left to the f-string, which renders str(languages).
languages_js_interpolated(languages) == str(languages)

\* languages_js = json.dumps(languages)
languages_js(languages) == json_dumps(languages)

\* ScreenSizeOverrides with the two values of the available size exchanged.
ScreenSizeOverridesAvailExchanged(viewport) ==
    Override("screen, 'width'", str(viewport.v["width"]))
        \o Override("screen, 'height'", str(viewport.v["height"]))
        \o Override("screen, 'availWidth'", str(viewport.v["height"]))
        \o Override("screen, 'availHeight'", str(viewport.v["width"]))

\* The overrides of screen.width, .height, .availWidth and .availHeight
ScreenSizeOverrides(viewport) ==
    Override("screen, 'width'", str(viewport.v["width"]))
        \o Override("screen, 'height'", str(viewport.v["height"]))
        \o Override("screen, 'availWidth'", str(viewport.v["width"]))
        \o Override("screen, 'availHeight'", str(viewport.v["height"]))

generate_js_overrides(fp, vw) ==
    LET platform == Get(fp, "platform", DEFAULT_FP["platform"])
        languages == Get(fp, "languages", DEFAULT_FP["languages"])
        device_memory == Get(fp, "device_memory", DEFAULT_FP["device_memory"])
        hardware_concurrency ==
            Get(fp, "hardware_concurrency", DEFAULT_FP["hardware_concurrency"])
        max_touch_points == Get(fp, "max_touch_points", DEFAULT_FP["max_touch_points"])
        color_depth == Get(fp, "color_depth", DEFAULT_FP["color_depth"])
        webdriver == Get(fp, "webdriver", DEFAULT_FP["webdriver"])
        user_agent == Get(fp, "user_agent", DEFAULT_FP["user_agent"])
        vp_ == _normalize_viewport(Get(fp, "viewport", None), vw)
        languages_text == languages_js(languages)
    IN  <<"\n// Fingerprint override script - injected before page load\n",
          "(function() {\n", "    'use strict';\n", "    \n",
          "    // Override navigator properties\n">>
        \o Override("navigator, 'platform'", Quoted(str(platform)))
        \o Override("navigator, 'languages'", languages_text)
        \o Override("navigator, 'language'", languages_text \o <<"[0]">>)
        \o Override("navigator, 'deviceMemory'", str(device_memory))
        \o Override("navigator, 'hardwareConcurrency'", str(hardware_concurrency))
        \o Override("navigator, 'maxTouchPoints'", str(max_touch_points))
        \o Override("navigator, 'webdriver'", webdriver_js(webdriver))
        \o <<"    // Override screen properties\n">>
        \o Override("screen, 'colorDepth'", str(color_depth))
        \o Override("screen, 'pixelDepth'", str(color_depth))
        \o ScreenSizeOverrides(vp_)
        \o <<"    // Override userAgent if needed\n">>
        \o Override("navigator, 'userAgent'", Quoted(str(user_agent)))
        \o <<"})();\n">>

(***************************************************************************)
(* The inputs: the values handed to _normalize_viewport, the files handed  *)
(* to load_fp_json and the records a caller builds itself.                 *)
(***************************************************************************)
MaxListLen == 3
MaxOverrides == 1

W(word) == Str(<<word>>)

\* Elements of a viewport list and values of a viewport mapping.
Elems ==
    {None, IntV(-5), IntV(0), IntV(720), IntV(1280), FloatV(50),
     Str(<<"1", "0", "2", "4">>), W("abc")}

RECURSIVE ListsUpTo(_)
ListsUpTo(n) ==
    IF n = 0 THEN {<<>>}
    ELSE LET shorter == ListsUpTo(n - 1)
         IN  shorter \cup {Append(l, e) : l \in {x \in shorter : Len(x) = n - 1},
                                          e \in Elems}

ViewportMappings ==
    UNION {{Dict(SelectSeq(<<"width", "height">>, LAMBDA key : key \in ks), f) :
               f \in [ks -> Elems]} : ks \in SUBSET {"width", "height"}}

\* The tuples of test_tuple_input and test_invalid_tuple, and shorter ones.
ViewportTuples ==
    {Tuple(<<IntV(1920), IntV(1080)>>), Tuple(<<W("abc"), W("def")>>),
     Tuple(<<IntV(1920)>>), Tuple(<<>>)}

ViewportInputs ==
    Elems \cup {Bool(TRUE)} \cup {List(l) : l \in ListsUpTo(MaxListLen)}
          \cup ViewportTuples \cup ViewportMappings

FieldNames ==
    {"user_agent", "viewport", "timezone", "locale", "platform", "languages",
     "device_memory", "hardware_concurrency", "max_touch_points", "color_depth",
     "webdriver", "device_scale_factor", "color_scheme"}

\* A mapping where a text is expected: its keys are not in their alphabetic
\* order, and its values are a tuple of one str and a float.
OddMapping ==
    Dict(<<"b", "a">>,
         [a |-> FloatV(150), b |-> Tuple(<<Str(<<"a", "\n", "é", "'">>)>>)])

UA_SPECIAL == Str(<<"Test", "'", "UA", "\"", "with", "\\", "special">>)

FieldValues(f) ==
    CASE f = "viewport" ->
           {None, List(<<IntV(1280), IntV(720)>>), List(<<W("abc"), W("def")>>),
            List(<<IntV(0), IntV(-5)>>), Tuple(<<IntV(1366), IntV(768)>>), EmptyDict,
            Viewport(IntV(1920), IntV(1080)),
            Viewport(Str(<<"1", "0", "2", "4">>), Str(<<"7", "6", "8">>)),
            Viewport(W("abc"), W("def"))}
      [] f = "user_agent" ->
           {None, Str(<<>>), W("Mozilla/5.0 Test"), UA_SPECIAL, IntV(5)}
      [] f = "timezone" -> {None, Str(<<>>), W("America/New_York"), IntV(5)}
      [] f = "locale" -> {None, Str(<<>>), W("de-DE"), IntV(0)}
      [] f = "platform" -> {None, Str(<<>>), W("MacIntel"), Bool(TRUE), OddMapping}
      [] f = "languages" ->
           {None, List(<<>>), List(<<EN_US, EN, W("de-DE")>>),
            List(<<Str(<<"a", "\"", "b", "\\">>), EN>>),
            List(<<Str(<<"caf", "é", DEL>>), Str(<<"\f", "Z", "ü", "rich", "\n">>)>>),
            EN_US, Str(<<>>), IntV(7), Dict(<<"a">>, [a |-> IntV(1)])}
      [] f = "device_memory" ->
           {None, IntV(16), W("not_a_number"), Str(<<"1", "6">>), FloatV(370)}
      [] f = "hardware_concurrency" ->
           {None, IntV(12), Str(<<"\f", "4", "\n">>), List(<<>>), Float(FALSE, 15, -8)}
      [] f = "max_touch_points" -> {None, IntV(5), W("xyz"), Bool(TRUE)}
      [] f = "color_depth" -> {None, IntV(30), List(<<>>), Str(<<"3", "2">>)}
      [] f = "webdriver" -> {None, Bool(TRUE), Bool(FALSE), IntV(1), W("no")}
      [] f = "device_scale_factor" ->
           {None, IntV(2), IntV(0), FloatV(125), FloatV(-100),
            Str(<<"1", ".", "5">>), Str(<<"1", "e", "1">>),
            Str(<<"1", "e", "4", "0", "0">>), Str(<<"1", "e", "-", "4", "0", "0">>),
            Str(<<"\t", "-", "1", "_", "0", ".", "5", "E", "-", "2", " ">>), W("abc")}
      [] f = "color_scheme" -> {None, W("dark"), W("light"), W("blue")}

\* tests/test_fingerprint_utils.py: the records of test_missing_fields,
\* test_complete_fingerprint and test_malformed_fields.
PartialRecord ==
    Dict(<<"viewport">>, [key \in {"viewport"} |-> List(<<IntV(1280), IntV(720)>>)])

CompleteRecord ==
    Dict(<<"user_agent", "viewport", "timezone", "locale", "platform", "languages",
           "device_memory", "hardware_concurrency", "max_touch_points",
           "color_depth", "webdriver", "device_scale_factor">>,
         [user_agent |-> W("Mozilla/5.0 Test"),
          viewport |-> Viewport(IntV(1920), IntV(1080)),
          timezone |-> W("America/New_York"),
          locale |-> EN_US,
          platform |-> W("MacIntel"),
          languages |-> List(<<EN_US, EN>>),
          device_memory |-> IntV(16),
          hardware_concurrency |-> IntV(12),
          max_touch_points |-> IntV(5),
          color_depth |-> IntV(24),
          webdriver |-> Bool(FALSE),
          device_scale_factor |-> IntV(2)])

MalformedRecord ==
    Dict(<<"viewport", "device_memory", "hardware_concurrency", "max_touch_points",
           "color_depth", "languages">>,
         [viewport |-> Viewport(W("abc"), W("def")),
          device_memory |-> W("not_a_number"),
          hardware_concurrency |-> None,
          max_touch_points |-> W("xyz"),
          color_depth |-> List(<<>>),
          languages |-> EN_US])

Remove(d, key) ==
    Dict(SelectSeq(d.k, LAMBDA x : x # key), [x \in (DOMAIN d.v) \ {key} |-> d.v[x]])

\* r, and r with one field set to one of its values or taken out.
Varied(r) ==
    {r} \cup UNION {{Put(r, f, x) : x \in FieldValues(f)} : f \in FieldNames}
        \cup {Remove(r, f) : f \in DOMAIN r.v}

RECURSIVE VariedTimes(_, _)
VariedTimes(rs, n) ==
    IF n = 0 THEN rs ELSE VariedTimes(UNION {Varied(r) : r \in rs}, n - 1)

Records == VariedTimes({PartialRecord, CompleteRecord, MalformedRecord}, MaxOverrides)

\* True of the values a JSON text can stand for: it has no tuple.
RECURSIVE IsJson(_)
IsJson(x) ==
    CASE x.t = "tuple" -> FALSE
      [] x.t = "list" -> \A i \in 1..Len(x.v) : IsJson(x.v[i])
      [] x.t = "dict" -> \A key \in DOMAIN x.v : IsJson(x.v[key])
      [] OTHER -> TRUE

\* What the path given to load_fp_json may name.
Files ==
    {NoFile, BadJson, None, Bool(TRUE), IntV(5), FloatV(150), W("x"),
     List(<<>>), List(<<PartialRecord>>)} \cup {r \in Records : IsJson(r)}

\* The file of a later load: test_missing_fields', which states a viewport
\* and nothing else.
LaterFiles == {PartialRecord}

Proxies == {None, Str(<<>>), W("http://proxy.example.com:8080")}

(***************************************************************************)
(* The state: a caller that normalises a viewport, or gets a record (from  *)
(* a file, built by itself, or from random_fp) and projects it.            *)
(***************************************************************************)
VARIABLES
    pc,      \* the caller's position
    arg,     \* the argument of the direct call of _normalize_viewport
    vp,      \* its result
    file,    \* what the path given to load_fp_json names
    fp,      \* the record in the caller's hands (or what load_fp_json raised)
    given,   \* the record as it was passed to get_context_args
    proxy,   \* the proxy passed to get_context_args
    args,    \* the result of get_context_args
    args2,   \* the result of a second call with the same arguments
    js,      \* the result of generate_js_overrides
    shared,  \* whether fp["languages"] is DEFAULT_FP["languages"]
    file2,   \* what the path given to a later load_fp_json names
    fp2,     \* the record that later call returns
    random   \* whether fp is a record random_fp returned

vars == <<pc, arg, vp, file, fp, given, proxy, args, args2, js,
          DEFAULT_FP_languages, shared, file2, fp2, random>>

Unset == [t |-> "unset", v |-> <<>>]

Init ==
    /\ pc = "start"
    /\ arg = Unset /\ vp = Unset /\ file = Unset /\ fp = Unset /\ given = Unset
    /\ proxy = Unset /\ args = Unset /\ args2 = Unset /\ js = Unset
    /\ DEFAULT_FP_languages = List(<<EN_US, EN>>)
    /\ shared = FALSE /\ file2 = Unset /\ fp2 = Unset /\ random = FALSE

CallNormalizeViewport ==
    /\ pc = "start"
    /\ \E x \in ViewportInputs : \E vw \in Draws(x) :
          /\ arg' = x
          /\ vp' = _normalize_viewport(x, vw)
    /\ pc' = "normalized"
    /\ UNCHANGED <<file, fp, given, proxy, args, args2, js,
                   DEFAULT_FP_languages, shared, file2, fp2, random>>

CallLoadFpJson ==
    /\ pc = "start"
    /\ \E f \in Files : \E vw \in DrawsOfRecord(json_load(f)) :
          /\ file' = f
          /\ fp' = load_fp_json(f, vw)
          /\ shared' = SharesDefaultLanguages(f)
    /\ pc' = "loaded"
    /\ UNCHANGED <<arg, vp, given, proxy, args, args2, js,
                   DEFAULT_FP_languages, file2, fp2, random>>

\* The caller writes the record itself, as the tests do.
BuildRecord ==
    /\ pc = "start"
    /\ \E r \in Records : fp' = r
    /\ pc' = "built"
    /\ UNCHANGED <<arg, vp, file, given, proxy, args, args2, js,
                   DEFAULT_FP_languages, shared, file2, fp2, random>>

\* fp = random_fp()
CallRandomFp ==
    /\ pc = "start"
    /\ \E c \in RandomChoices : fp' = random_fp(c)
    /\ random' = TRUE
    /\ pc' = "random"
    /\ UNCHANGED <<arg, vp, file, given, proxy, args, args2, js,
                   DEFAULT_FP_languages, shared, file2, fp2>>

\* get_context_args(fp, proxy)
CallGetContextArgs ==
    /\ pc \in {"loaded", "built", "random"}
    /\ fp.t = "dict"
    /\ \E p \in Proxies, vw \in DrawsOfRecord(fp) :
          /\ proxy' = p
          /\ args' = get_context_args(fp, p, vw)
    /\ given' = fp
    /\ pc' = "ctx"
    /\ UNCHANGED <<arg, vp, file, fp, args2, js,
                   DEFAULT_FP_languages, shared, file2, fp2, random>>

\* A second call with the same arguments, by a caller that loaded or built
\* its record.
CallGetContextArgsAgain ==
    /\ pc = "ctx"
    /\ ~random
    /\ ~IsRaise(args)
    /\ \E vw \in DrawsOfRecord(fp) : args2' = get_context_args(fp, proxy, vw)
    /\ pc' = "ctx2"
    /\ UNCHANGED <<arg, vp, file, fp, given, proxy, args, js,
                   DEFAULT_FP_languages, shared, file2, fp2, random>>

\* generate_js_overrides(fp), of a record as it was got or after it was
\* projected to the context arguments the way main does it, with no proxy.
CallGenerateJsOverrides ==
    /\ pc \in {"loaded", "built", "random", "ctx"}
    /\ pc = "ctx" => proxy = None
    /\ fp.t = "dict"
    /\ ~IsRaise(args)
    /\ \E vw \in DrawsOfRecord(fp) : js' = generate_js_overrides(fp, vw)
    /\ pc' = "js"
    /\ UNCHANGED <<arg, vp, file, fp, given, proxy, args, args2,
                   DEFAULT_FP_languages, shared, file2, fp2, random>>

\* The caller changes the languages of the record it loaded: in place
\* (fp["languages"].append(...), fp["languages"].clear()), which changes the
\* list object whoever else holds it, or by binding the key to a new list.
ModifyLanguages ==
    /\ pc = "loaded"
    /\ fp.t = "dict"
    /\ \E edit \in {"append", "clear", "assign"} :
          LET new == IF edit = "clear" THEN List(<<>>)
                     ELSE List(Append(fp.v["languages"].v, W("tlh")))
          IN  /\ fp' = Put(fp, "languages", new)
              /\ DEFAULT_FP_languages' =
                    IF shared /\ edit # "assign" THEN new ELSE DEFAULT_FP_languages
              /\ shared' = (shared /\ edit # "assign")
    /\ pc' = "modified"
    /\ UNCHANGED <<arg, vp, file, given, proxy, args, args2, js, file2, fp2,
                   random>>

\* A later load_fp_json, of a file with missing fields.
CallLoadFpJsonLater ==
    /\ pc = "modified"
    /\ \E f \in LaterFiles : \E vw \in DrawsOfRecord(json_load(f)) :
          /\ file2' = f
          /\ fp2' = load_fp_json(f, vw)
    /\ pc' = "reloaded"
    /\ UNCHANGED <<arg, vp, file, fp, given, proxy, args, args2, js,
                   DEFAULT_FP_languages, shared, random>>

Next ==
    \/ CallNormalizeViewport
    \/ CallLoadFpJson
    \/ BuildRecord
    \/ CallRandomFp
    \/ CallGetContextArgs
    \/ CallGetContextArgsAgain
    \/ CallGenerateJsOverrides
    \/ ModifyLanguages
    \/ CallLoadFpJsonLater

Spec == Init /\ [][Next]_vars

(***************************************************************************)
(* The claims.                                                             *)
(***************************************************************************)
IsInt(x) == x.t = "int"
IsStr(x) == x.t = "str"
IsPositiveInt(x) == IsInt(x) /\ x.v > 0
IsPositiveFloat(x) == x.t = "float" /\ ~x.v.neg /\ (x.v.m > 0 \/ x.v.inf)
IsConvertible(x) == ~IsRaise(int(x))
Has(d, key) == key \in DOMAIN d.v

IsPositiveViewport(x) ==
    /\ x.t = "dict"
    /\ DOMAIN x.v = {"width", "height"}
    /\ IsPositiveInt(x.v["width"])
    /\ IsPositiveInt(x.v["height"])

\* C1: whatever value _normalize_viewport is given, it returns a mapping with
\* exactly the keys width and height, both integers greater than 0.
C1_NormalizeViewportPositive == pc = "normalized" => IsPositiveViewport(vp)

\* True once load_fp_json has returned a record, for as long as fp is that
\* record as it was returned.
Loaded == file # Unset /\ fp.t = "dict" /\ pc \notin {"modified", "reloaded"}

TypeCorrect(r) ==
    /\ \A k \in {"user_agent", "timezone", "locale", "platform"} : IsStr(r.v[k])
    /\ IsPositiveViewport(r.v["viewport"])
    /\ r.v["languages"].t = "list"
    /\ Len(r.v["languages"].v) > 0
    /\ \A i \in 1..Len(r.v["languages"].v) : IsStr(r.v["languages"].v[i])
    /\ \A k \in {"device_memory", "hardware_concurrency", "color_depth"} :
          IsInt(r.v[k])
    /\ IsInt(r.v["max_touch_points"]) /\ r.v["max_touch_points"].v >= 0
    /\ r.v["webdriver"].t = "bool"
    /\ IsPositiveFloat(r.v["device_scale_factor"])
    /\ r.v["color_scheme"] \in {W("light"), W("dark")}

\* C2: a record returned by load_fp_json holds every one of the thirteen
\* fields, each of the type the data model gives it, and none null.
C2_LoadedRecordComplete ==
    Loaded => (FieldNames \subseteq DOMAIN fp.v /\ TypeCorrect(fp))

\* C3: load_fp_json raises only when the file cannot be read or its text is
\* not JSON.
C3_LoadRaisesOnlyOnFileErrors ==
    (pc = "loaded" /\ IsRaise(fp)) => file \in {NoFile, BadJson}

IntDefault(k) ==
    CASE k = "device_memory" -> 8
      [] k = "hardware_concurrency" -> 8
      [] k = "max_touch_points" -> 0
      [] k = "color_depth" -> 24

C4_IntFields ==
    \A k \in {"device_memory", "hardware_concurrency", "max_touch_points",
              "color_depth"} :
        IF Has(file, k) /\ IsConvertible(file.v[k])
        THEN fp.v[k] = int(file.v[k])
        ELSE fp.v[k] = IntV(IntDefault(k))

C4_Viewport ==
    (Has(file, "viewport") /\ file.v["viewport"].t = "dict") =>
        LET w == Get(file.v["viewport"], "width", None)
            h == Get(file.v["viewport"], "height", None)
        IN  IF IsConvertible(w) /\ IsConvertible(h)
            THEN fp.v["viewport"] = Viewport(int(w), int(h))
            ELSE fp.v["viewport"] = Viewport(IntV(1280), IntV(800))

C4_TextFields ==
    \A k \in {"user_agent", "timezone", "locale", "platform"} :
        IF Has(file, k) /\ bool(file.v[k])
        THEN fp.v[k] = file.v[k]
        ELSE fp.v[k] = DEFAULT_FP[k]

C4_Languages ==
    IF Has(file, "languages") /\ bool(file.v["languages"])
    THEN IF file.v["languages"].t = "list"
         THEN fp.v["languages"] = file.v["languages"]
         ELSE fp.v["languages"] = List(<<file.v["languages"]>>)
    ELSE fp.v["languages"] = List(<<W("en-US"), W("en")>>)

\* C4: load_fp_json replaces each missing or malformed field by its documented
\* default and keeps each well-formed field (converted to its type), each
\* field whatever the other fields are.
C4_LoadDefaultsFieldByField ==
    Loaded => (C4_IntFields /\ C4_Viewport /\ C4_TextFields /\ C4_Languages)

\* The record of test_malformed_fields, loaded, with a locale of its own.
C4_Witness ==
    /\ pc = "loaded"
    /\ file = Put(MalformedRecord, "locale", W("de-DE"))
    /\ fp.v["device_memory"] = IntV(8)
    /\ fp.v["color_depth"] = IntV(24)
    /\ fp.v["languages"] = List(<<EN_US>>)
    /\ fp.v["locale"] = W("de-DE")

BaseKeys ==
    {"user_agent", "viewport", "locale", "timezone_id", "device_scale_factor",
     "color_scheme"}

\* True once get_context_args has been called (and has returned or raised).
Projected == pc \in {"ctx", "ctx2"} \/ (pc = "js" /\ args # Unset)

\* C5: for every record and every proxy, get_context_args returns a mapping
\* with the six base keys, and with the key proxy, holding {server: proxy},
\* exactly when the proxy is a non-empty string; it holds no other key.
C5_ContextArgsKeys ==
    Projected =>
        /\ args.t = "dict"
        /\ DOMAIN args.v =
              BaseKeys \cup (IF IsStr(proxy) /\ Len(proxy.v) > 0 THEN {"proxy"} ELSE {})
        /\ Has(args, "proxy") => args.v["proxy"] = Dict(<<"server">>, [key \in {"server"} |-> proxy])

C6_Passed(key, argKey, default) ==
    args.v[argKey] = (IF Has(given, key) THEN given.v[key] ELSE default)

\* The viewport a record states: a mapping, or a list of two elements or
\* more, whose width and height convert to integers.
ViewportStated(r) ==
    /\ Has(r, "viewport")
    /\ LET x == r.v["viewport"]
       IN  \/ /\ IsSequence(x) /\ Len(x.v) >= 2
              /\ IsConvertible(x.v[1]) /\ IsConvertible(x.v[2])
           \/ /\ x.t = "dict" /\ Has(x, "width") /\ Has(x, "height")
              /\ IsConvertible(x.v["width"]) /\ IsConvertible(x.v["height"])

StatedWidth(r) ==
    LET x == r.v["viewport"] IN IF IsSequence(x) THEN x.v[1] ELSE x.v["width"]

StatedHeight(r) ==
    LET x == r.v["viewport"] IN IF IsSequence(x) THEN x.v[2] ELSE x.v["height"]

\* C6: in the mapping get_context_args returns, a field absent from the
\* record has its default, and a field present has the record's value
\* (timezone under timezone_id, device_scale_factor as a float, viewport as
\* integer width and height).
C6_ContextArgsDefaults ==
    (Projected /\ args.t = "dict") =>
        /\ C6_Passed("user_agent", "user_agent", DEFAULT_FP["user_agent"])
        /\ C6_Passed("locale", "locale", DEFAULT_FP["locale"])
        /\ C6_Passed("timezone", "timezone_id", DEFAULT_FP["timezone"])
        /\ C6_Passed("color_scheme", "color_scheme", W("light"))
        /\ args.v["device_scale_factor"].t = "float"
        /\ args.v["device_scale_factor"] =
              (IF Has(given, "device_scale_factor")
               THEN float(given.v["device_scale_factor"]) ELSE FloatV(100))
        /\ IsInt(args.v["viewport"].v["width"])
        /\ IsInt(args.v["viewport"].v["height"])
        /\ ViewportStated(given) =>
              args.v["viewport"] =
                  Viewport(int(StatedWidth(given)), int(StatedHeight(given)))

\* The record of test_complete_fingerprint with a null user_agent: it states
\* no color_scheme.
C6_Witness ==
    /\ pc = "ctx"
    /\ args.t = "dict"
    /\ given = Put(CompleteRecord, "user_agent", None)
    /\ args.v["user_agent"] = None
    /\ args.v["timezone_id"] = W("America/New_York")
    /\ args.v["device_scale_factor"] = FloatV(200)
    /\ ~Has(given, "color_scheme") /\ args.v["color_scheme"] = W("light")

\* C7, as claimed: two calls of get_context_args with the same record and the
\* same proxy return equal mappings, and the record is left as it was.
C7_ContextArgsRepeatable == pc = "ctx2" => (args2 = args /\ fp = given)

\* C7, amended: the two mappings hold the same keys and agree on every key
\* but viewport; they agree on viewport too when the record's viewport is a
\* mapping or a list of two or more elements whose first two convert to
\* integers, and otherwise each viewport is an entry of VIEWPORTS drawn by
\* its own call; the record is left as it was.
C7_ContextArgsRepeatableButViewport ==
    pc = "ctx2" =>
        /\ fp = given
        /\ args2.t = "dict"
        /\ DOMAIN args2.v = DOMAIN args.v
        /\ \A k \in DOMAIN args.v \ {"viewport"} : args2.v[k] = args.v[k]
        /\ LET x == Get(given, "viewport", None)
               stated == \/ x.t = "dict"
                         \/ /\ IsSequence(x) /\ Len(x.v) >= 2
                            /\ IsConvertible(x.v[1]) /\ IsConvertible(x.v[2])
               drawn == {Viewport(IntV(VIEWPORTS[i][1]), IntV(VIEWPORTS[i][2])) :
                            i \in 1..Len(VIEWPORTS)}
           IN  IF stated THEN args2.v["viewport"] = args.v["viewport"]
               ELSE {args.v["viewport"], args2.v["viewport"]} \subseteq drawn

\* Two calls on the record {} with a proxy: the viewports drawn differ, the
\* rest agrees.
C7_Witness ==
    /\ pc = "ctx2"
    /\ given = EmptyDict
    /\ bool(proxy)
    /\ args.v["viewport"] = Viewport(IntV(1920), IntV(1080))
    /\ args2.v["viewport"] = Viewport(IntV(375), IntV(812))
    /\ args2.v["proxy"] = args.v["proxy"]

\* C8: _normalize_viewport chooses its result by the shape of its input.
C8_NormalizeViewportByShape ==
    pc = "normalized" =>
        IF /\ IsSequence(arg) /\ Len(arg.v) >= 2
           /\ IsConvertible(arg.v[1]) /\ IsConvertible(arg.v[2])
        THEN vp = Viewport(int(arg.v[1]), int(arg.v[2]))
        ELSE IF arg.t = "dict"
        THEN IF /\ Has(arg, "width") /\ Has(arg, "height")
                /\ IsConvertible(arg.v["width"]) /\ IsConvertible(arg.v["height"])
             THEN vp = Viewport(int(arg.v["width"]), int(arg.v["height"]))
             ELSE vp = Viewport(IntV(1280), IntV(800))
        ELSE \E i \in 1..8 :
                vp = Viewport(IntV(VIEWPORTS[i][1]), IntV(VIEWPORTS[i][2]))

\* A list of three elements: the first two are taken.
C8_Witness ==
    /\ pc = "normalized"
    /\ arg = List(<<Str(<<"1", "0", "2", "4">>), IntV(720), W("abc")>>)
    /\ vp = Viewport(IntV(1024), IntV(720))

Contains(script, piece) == \E i \in 1..Len(script) : script[i] = piece

\* The place of the first piece equal to piece, from place from on.
First(script, piece, from) ==
    CHOOSE i \in from..Len(script) :
        script[i] = piece /\ \A j \in from..(i - 1) : script[j] # piece

\* The place of the first piece equal to piece in the whole script.
Place(script, piece) ==
    LET places == {i \in 1..Len(script) : script[i] = piece}
    IN  CHOOSE i \in places : \A j \in places : i <= j

\* The text the getter of the override of target returns: what stands between
\* "get: () => " and the end of the override.
GetterText(script, target) ==
    LET p == Place(script, target)
        from == First(script, GetterOpen, p) + 1
    IN  SubSeq(script, from, First(script, BlockClose, from) - 1)

NotJson == [t |-> "notjson", v |-> <<>>]

\* The character a JSON escape stands for, by what follows its backslash.
JsonUnescape(c) ==
    CASE c = "n" -> "\n"
      [] c = "t" -> "\t"
      [] c = "r" -> "\r"
      [] c = "f" -> "\f"
      [] c = "u007f" -> DEL
      [] c = "u00e9" -> "é"
      [] c = "u00fc" -> "ü"
      [] OTHER -> c

\* Reads the elements of a JSON array of strings from piece i on; open says
\* whether a string is being read, text holds its content so far, acc the
\* elements read.
RECURSIVE ReadArray(_, _, _, _, _)
ReadArray(s, i, open, text, acc) ==
    IF i > Len(s) THEN NotJson
    ELSE IF ~open
    THEN CASE s[i] = "\"" /\ s[i - 1] \in {"[", ", "} ->
                ReadArray(s, i + 1, TRUE, <<>>, acc)
           [] s[i] = ", " /\ s[i - 1] = "\"" /\ i < Len(s) /\ s[i + 1] = "\"" ->
                ReadArray(s, i + 1, FALSE, <<>>, acc)
           [] s[i] = "]" /\ i = Len(s) -> List(acc)
           [] OTHER -> NotJson
    ELSE CASE /\ s[i] = "\\" /\ i < Len(s)
              /\ s[i + 1] \in {"\\", "\"", "n", "t", "r", "f", "u007f", "u00e9",
                              "u00fc"} ->
                ReadArray(s, i + 2, TRUE, Append(text, JsonUnescape(s[i + 1])), acc)
           [] s[i] = "\\" -> NotJson
           [] s[i] = "\"" -> ReadArray(s, i + 1, FALSE, <<>>, Append(acc, Str(text)))
           [] s[i] \in Special -> NotJson
           [] OTHER -> ReadArray(s, i + 1, TRUE, Append(text, s[i]), acc)

\* The list a JSON array literal of strings stands for.
JsonArray(s) ==
    IF Len(s) >= 2 /\ s[1] = "[" THEN ReadArray(s, 2, FALSE, <<>>, <<>>) ELSE NotJson

IsListOfStr(x) == x.t = "list" /\ \A i \in 1..Len(x.v) : IsStr(x.v[i])

\* C9: the script holds the override of navigator.webdriver, and the getter
\* of navigator.languages returns a JSON array literal that reads back as the
\* languages of the record, in their order (as ["en-US", "en"] when the
\* record states none).
C9_ScriptLanguagesJson ==
    pc = "js" =>
        /\ Contains(js, "navigator, 'webdriver'")
        /\ LET languages == Get(fp, "languages", List(<<W("en-US"), W("en")>>))
           IN  IsListOfStr(languages) =>
                  JsonArray(GetterText(js, "navigator, 'languages'")) = languages

\* A languages list whose first element holds a quote and a backslash.
C9_Witness ==
    /\ pc = "js"
    /\ Has(fp, "languages")
    /\ fp.v["languages"] = List(<<Str(<<"a", "\"", "b", "\\">>), W("en")>>)
    /\ GetterText(js, "navigator, 'languages'") =
          <<"[", "\"", "a", "\\", "\"", "b", "\\", "\\", "\"", ", ",
            "\"", "en", "\"", "]">>

\* C10: the getter of navigator.webdriver returns the literal true when the
\* record's webdriver is true, the literal false when it is false or absent,
\* and no other text.
C10_ScriptWebdriverLiteral ==
    pc = "js" =>
        LET text == GetterText(js, "navigator, 'webdriver'")
        IN  /\ text \in {<<"true">>, <<"false">>}
            /\ (Has(fp, "webdriver") /\ fp.v["webdriver"] = Bool(TRUE)) =>
                  text = <<"true">>
            /\ (~Has(fp, "webdriver") \/ fp.v["webdriver"] = Bool(FALSE)) =>
                  text = <<"false">>

C10_Witness ==
    /\ pc = "js"
    /\ file = Unset
    /\ Has(fp, "webdriver") /\ fp.v["webdriver"] = Bool(TRUE)
    /\ GetterText(js, "navigator, 'webdriver'") = <<"true">>

\* True once random_fp has returned.
Generated == random

\* The entries of VIEWPORTS, as mappings.
ViewportEntries ==
    {Viewport(IntV(VIEWPORTS[i][1]), IntV(VIEWPORTS[i][2])) : i \in 1..Len(VIEWPORTS)}

\* C11: random_fp always returns a record; its user agent and platform are a
\* coherent pair (Windows with Win32, Macintosh with MacIntel, iPhone with
\* iPhone), its viewport is an entry of VIEWPORTS, and its max_touch_points
\* is 0 when the platform is Win32 or MacIntel and 5 or 10 otherwise.
C11_RandomFpCoherent ==
    Generated =>
        /\ fp.t = "dict"
        /\ In("Windows", fp.v["user_agent"]) => fp.v["platform"] = W("Win32")
        /\ In("Macintosh", fp.v["user_agent"]) => fp.v["platform"] = W("MacIntel")
        /\ In("iPhone", fp.v["user_agent"]) => fp.v["platform"] = W("iPhone")
        /\ fp.v["viewport"] \in ViewportEntries
        /\ IF fp.v["platform"] \in {W("Win32"), W("MacIntel")}
           THEN fp.v["max_touch_points"] = IntV(0)
           ELSE fp.v["max_touch_points"] \in {IntV(5), IntV(10)}

\* An iPhone record with ten touch points and the last entry of VIEWPORTS.
C11_Witness ==
    /\ pc = "random"
    /\ fp.v["user_agent"] = UA_IPHONE
    /\ fp.v["platform"] = W("iPhone")
    /\ fp.v["max_touch_points"] = IntV(10)
    /\ fp.v["viewport"] = Viewport(IntV(360), IntV(800))

\* C12: get_context_args never raises on a record random_fp returned, and
\* the mapping it returns has a string user_agent, locale, timezone_id and
\* color_scheme, a float device_scale_factor, and a viewport equal to the
\* record's viewport, with integer width and height.
C12_RandomFpSafeForContextArgs ==
    (Generated /\ pc = "ctx") =>
        /\ args.t = "dict"
        /\ \A k \in {"user_agent", "locale", "timezone_id", "color_scheme"} :
              IsStr(args.v[k])
        /\ args.v["device_scale_factor"].t = "float"
        /\ args.v["viewport"] = fp.v["viewport"]
        /\ IsInt(args.v["viewport"].v["width"])
        /\ IsInt(args.v["viewport"].v["height"])

\* A generated record whose device_scale_factor is the integer 2, projected
\* with a proxy.
C12_Witness ==
    /\ Generated /\ pc = "ctx"
    /\ bool(proxy)
    /\ fp.v["device_scale_factor"] = IntV(2)
    /\ args.v["device_scale_factor"] = FloatV(200)
    /\ fp.v["viewport"] = Viewport(IntV(390), IntV(844))
    /\ args.v["viewport"] = Viewport(IntV(390), IntV(844))
    /\ args.v["timezone_id"] = W("Asia/Tokyo")

\* C13: no mutable value is shared between calls: whatever is loaded and
\* however the returned records are modified in place, DEFAULT_FP stays as
\* written, and a later load of a file that states no languages yields the
\* documented default ["en-US", "en"].
C13_NoSharedMutableState ==
    /\ DEFAULT_FP["languages"] = List(<<W("en-US"), W("en")>>)
    /\ (pc = "reloaded" /\ ~Has(file2, "languages")) =>
          fp2.v["languages"] = List(<<W("en-US"), W("en")>>)

\* True once both projections of the record fp have been computed.
BothProjected == pc = "js" /\ args # Unset /\ args.t = "dict"

\* The screen size the script states: the texts of the getters of
\* screen.width, .availWidth, .height and .availHeight.
ScriptScreenSize ==
    [width |-> GetterText(js, "screen, 'width'"),
     availWidth |-> GetterText(js, "screen, 'availWidth'"),
     height |-> GetterText(js, "screen, 'height'"),
     availHeight |-> GetterText(js, "screen, 'availHeight'")]

\* The same four texts, as the viewport of the context arguments gives them.
ArgsScreenSize ==
    [width |-> IntToStr(args.v["viewport"].v["width"].v),
     availWidth |-> IntToStr(args.v["viewport"].v["width"].v),
     height |-> IntToStr(args.v["viewport"].v["height"].v),
     availHeight |-> IntToStr(args.v["viewport"].v["height"].v)]

\* C14, as claimed: for every record, the width and height the script writes
\* into the getters of screen.width, .availWidth, .height and .availHeight
\* are those of the viewport get_context_args returns for the same record.
C14_ProjectionsAgreeOnScreenSize == BothProjected => ScriptScreenSize = ArgsScreenSize

\* C14, amended: they are when the record's viewport is a mapping or a list
\* of two or more elements whose first two convert to integers; for any
\* other record each projection draws its own entry of VIEWPORTS, and the
\* script states the width and the height of the entry it drew.
C14_ProjectionsAgreeOnStatedViewport ==
    BothProjected =>
        LET x == Get(fp, "viewport", None)
            stated == \/ x.t = "dict"
                      \/ /\ IsSequence(x) /\ Len(x.v) >= 2
                         /\ IsConvertible(x.v[1]) /\ IsConvertible(x.v[2])
            script == ScriptScreenSize
        IN  IF stated THEN script = ArgsScreenSize
            ELSE /\ \E i \in 1..Len(VIEWPORTS) :
                       args.v["viewport"] =
                           Viewport(IntV(VIEWPORTS[i][1]), IntV(VIEWPORTS[i][2]))
                 /\ \E i \in 1..Len(VIEWPORTS) :
                       /\ script["width"] = IntToStr(VIEWPORTS[i][1])
                       /\ script["height"] = IntToStr(VIEWPORTS[i][2])
                       /\ script["availWidth"] = script["width"]
                       /\ script["availHeight"] = script["height"]

\* The record of test_complete_fingerprint with its viewport given as the
\* texts "1024" and "768": both projections state 1024 by 768.
C14_Witness ==
    /\ BothProjected
    /\ fp = Put(CompleteRecord, "viewport",
                Viewport(Str(<<"1", "0", "2", "4">>), Str(<<"7", "6", "8">>)))
    /\ args.v["viewport"] = Viewport(IntV(1024), IntV(768))
    /\ ScriptScreenSize["availWidth"] = <<"1", "0", "2", "4">>
    /\ ScriptScreenSize["availHeight"] = <<"7", "6", "8">>

=============================================================================
